---- MODULE Spec2Model ----
(***************************************************************************)
(* Qanoon AI as state machines.                                            *)
(*                                                                         *)
(* Spec        the request path of app.py (consult -> RAGEngine.search ->  *)
(*             generate_gemini_response)                                   *)
(* SpecBuild   runs of the index build, rag_engine.py __main__, one after  *)
(*             the other                                                   *)
(* SpecWriters the same runs started at any time, also side by side        *)
(* SpecChunk   one document taken through process_data.py and the build's  *)
(*             splitter, and through the splitter of update_memory.py      *)
(* SpecUpdate  runs of update_memory.py over a directory of raw files      *)
(* SpecPool    the extraction of the records by the thread pool            *)
(* SpecReload  an update followed by a start of the web process           *)
(* SpecServe   the web process from its start: RAGEngine() and load_index, *)
(*             the wake-up loop, the keep-alive thread, the requests       *)
(*                                                                         *)
(* Texts are sequences of one-character strings, so that str.lower() and   *)
(* the substring test `marker in error_msg` are computed, not assumed.     *)
(***************************************************************************)
EXTENDS Integers, Sequences, FiniteSets, TLC

VARIABLES
    GEMINI_KEYS,  \* app.py:23, the credentials left after filtering the env slots
    rag,          \* app.py:51-68, "none" or "engine"
    db,           \* RAGEngine.db: None or the sequence of indexed documents
    phase,        \* position of the consult handler for the current request
    found,        \* the call rag.search of this request and what it returned
    context,      \* consult's local `context`, a sequence of snippets
    response,     \* what consult returned: "none", "memory_error" or "stream"
    prompt,       \* full_prompt handed to the generator
    gpc,          \* position of the generator generate_gemini_response
    i,            \* loop index of `for i, key in enumerate(GEMINI_KEYS)`, 1-based
    pos,          \* chunks pulled so far from the current upstream stream
    exc,          \* the exception `e` caught last in this request, or None
    tried,        \* credentials handed to create_llm in this request, in order
    outcomes,     \* the branch each ended attempt of this request took
    out,          \* fragments delivered to the consumer in this request
    disconnected, \* TRUE once the consumer has closed the generator
    jsonFile,     \* rag_engine.py:17, legal_data_final.json and what it chunks to
    disk,         \* rag_engine.py:18, the folder FAISS_INDEX_PATH and its two files
    bpc,          \* position of each run of rag_engine.py's __main__
    bdb,          \* RAGEngine.db of each build run
    bloaded,      \* batches each run's load_index found in the persisted index
    bi,           \* `i` of the batch loop of build_index_from_json
    retries,      \* `retries` of the batch loop
    bafter,       \* where a run goes on after the save_local it is in
    status,       \* exit status of each run, once it has exited
    pdf,          \* a PDF of RAW_DIR, as the text of its pages
    entry,        \* a record of legal_data_final.json
    final_docs,   \* rag_engine.py:92, what the build's splitter returned
    chunks,       \* update_memory.py:77, what the update's splitter returned
    rawDir,       \* update_memory.py:9, the names of the files of RAW_DIR
    listing,      \* update_memory.py:11, legal_data_final.json as its items
    processedIndex, \* update_memory.py:12, faiss_index.* under PROCESSED_DIR
    upc,          \* position of update_memory
    new_pdfs,     \* update_memory.py:35, the files the run found to be new
    upos,         \* how many of new_pdfs the loop of line 69 has done
    new_json_entries, \* update_memory.py:67
    vectorstore,  \* update_memory.py:55, the documents of the loaded store
    uerrors,      \* the files whose processing raised in this run (line 90)
    runs,         \* what each ended run of update_memory reported
    bootpc,       \* position of the module code of app.py:51-80
    knocks,       \* failed calls of the wake-up loop, app.py:58-65
    dbDim,        \* the dimension of the vectors of the index in rag.db
    kpc,          \* position of the thread keep_brain_awake
    heartbeat,    \* how the last heartbeat ping ended
    is_awake,     \* app.py:57, a wake-up call has returned
    records,      \* rag_engine.py:82, data: the items of the JSON file
    futures,      \* rag_engine.py:87, one future for each item of data
    finished,     \* the items in the order their calls returned
    extracted     \* rag_engine.py:88, documents

\* the request path
appVars == <<GEMINI_KEYS, rag, db, phase, found, context, response, prompt,
             gpc, i, pos, exc, tried, outcomes, out, disconnected>>

\* the index build
buildVars == <<jsonFile, disk, bpc, bdb, bloaded, bi, retries, bafter, status>>

\* one document on its way into the index
chunkVars == <<pdf, entry, final_docs, chunks>>

\* the incremental update
updateVars == <<rawDir, listing, processedIndex, upc, new_pdfs, upos,
                new_json_entries, vectorstore, uerrors, runs>>

\* the start of the web process and its keep-alive thread
serveVars == <<bootpc, knocks, dbDim, kpc, heartbeat, is_awake>>

\* the extraction of the records by the thread pool, rag_engine.py:82-88
poolVars == <<records, futures, finished, extracted>>

\* what the request path never touches: the offline scripts, the start of
\* the process, the keep-alive thread
offlineVars == <<buildVars, chunkVars, updateVars, serveVars, poolVars>>

vars == <<appVars, offlineVars>>

genVars == <<gpc, i, pos, exc, tried, outcomes, out, disconnected>>

----------------------------------------------------------------------------
(* Bounds of the model *)

\* chunks one upstream stream delivers at most
MaxChunks == 2

----------------------------------------------------------------------------
(* Texts *)

UpperAlpha == <<"A","B","C","D","E","F","G","H","I","J","K","L","M",
                "N","O","P","Q","R","S","T","U","V","W","X","Y","Z">>

LowerAlpha == <<"a","b","c","d","e","f","g","h","i","j","k","l","m",
                "n","o","p","q","r","s","t","u","v","w","x","y","z">>

\* str.lower() on one character
LowerChar(c) ==
    IF \E n \in 1..Len(UpperAlpha) : UpperAlpha[n] = c
    THEN LowerAlpha[CHOOSE n \in 1..Len(UpperAlpha) : UpperAlpha[n] = c]
    ELSE c

\* str.lower()
Lower(s) == [n \in 1..Len(s) |-> LowerChar(s[n])]

\* the Python test `sub in s` on strings
Contains(s, sub) ==
    \E n \in 0..(Len(s) - Len(sub)) : SubSeq(s, n + 1, n + Len(sub)) = sub

\* s[:n]
Take(s, n) == SubSeq(s, 1, IF Len(s) < n THEN Len(s) ELSE n)

Last(s) == s[Len(s)]

----------------------------------------------------------------------------
(* The generation provider: what one attempt can raise *)

Chars429 == <<"4","2","9">>

CharsRateLimit == <<"r","a","t","e","_","l","i","m","i","t">>

CharsResourceExhausted ==
    <<"r","e","s","o","u","r","c","e","_","e","x","h","a","u","s","t","e","d">>

\* an exception of the provider: what it is (cls) and its str(e) (msg)
Exc(cls, msg) == [cls |-> cls, msg |-> msg]

NoExc == Exc("None", <<>>)

\* str(e) of the errors the provider raises in the model
Msg429 == <<"4","2","9"," ","T","o","o"," ","M","a","n","y">>

MsgResourceExhausted ==
    <<"R","E","S","O","U","R","C","E","_","E","X","H","A","U","S","T","E","D">>

MsgRateLimit == <<"R","a","t","e","_","L","i","m","i","t">>

MsgTimeout == <<"5","0","4"," ","D","e","a","d","l","i","n","e">>

MsgUnavailable == <<"5","0","3"," ","U","N","A","V","A","I","L","A","B","L","E">>

MsgTooLarge == <<"4","1","3"," ","t","o","o"," ","l","a","r","g","e">>

\* a payload error whose text happens to hold the digits 429
MsgTooLarge429 == <<"1","4","2","9","0"," ","t","o","k","e","n","s">>

MsgOther == <<"B","o","o","m">>

RateLimitErrors ==
    { Exc("rate_limit", Msg429),
      Exc("rate_limit", MsgResourceExhausted),
      Exc("rate_limit", MsgRateLimit) }

TransientErrors ==
    RateLimitErrors \cup
    { Exc("timeout", MsgTimeout), Exc("unavailable", MsgUnavailable) }

PayloadErrors ==
    { Exc("payload_too_large", MsgTooLarge),
      Exc("payload_too_large", MsgTooLarge429) }

ProviderErrors ==
    TransientErrors \cup PayloadErrors \cup { Exc("other", MsgOther) }

\* the test of app.py:113-115 with the lower() left out
IsRateLimitNoLower(e) ==
    \/ Contains(e.msg, Chars429)
    \/ Contains(e.msg, CharsRateLimit)
    \/ Contains(e.msg, CharsResourceExhausted)

\* app.py:113-115
IsRateLimit(e) ==
    LET error_msg == Lower(e.msg)
    IN  \/ Contains(error_msg, Chars429)
        \/ Contains(error_msg, CharsRateLimit)
        \/ Contains(error_msg, CharsResourceExhausted)

\* what close() throws into the generator; str(GeneratorExit()) is empty
GeneratorExit == Exc("GeneratorExit", <<>>)

\* every exception the handler of app.py:112 can be given
Exceptions == ProviderErrors \cup {GeneratorExit}

\* the verdict of app.py:115 on each exception, computed once
Verdict == [e \in Exceptions |-> IsRateLimit(e)]

\* `except Exception` widened to a bare `except:`
CatchesAll(cls) == TRUE

\* app.py:112, `except Exception`: GeneratorExit is a BaseException only
Catches(cls) == cls # "GeneratorExit"

----------------------------------------------------------------------------
(* Fragments *)

Fragment(kind, p, text) == [kind |-> kind, pos |-> p, text |-> text]

\* app.py:107, the content of chunk number p of the stream
ContentFragment(p) == Fragment("content", p, <<"chunk">>)

InterruptionHeader == "### System Interruption: An unexpected error occurred: "

\* the fallback of app.py:120 with the lowered text in place of str(e)
InterruptionFragmentLowered(e) ==
    Fragment("interruption", 0, <<InterruptionHeader>> \o Lower(e.msg))

\* app.py:120
InterruptionFragment(e) ==
    Fragment("interruption", 0, <<InterruptionHeader>> \o e.msg)

LimitHeader == "### Limit Reached: Please wait 60 seconds"

\* app.py:124
LimitFragment == Fragment("limit", 0, <<LimitHeader>>)

FallbackKinds == {"interruption", "limit"}

\* the fallback fragments of a sequence of fragments
Fallbacks(s) == { n \in 1..Len(s) : s[n].kind \in FallbackKinds }

----------------------------------------------------------------------------
(* The retrieval engine, backend/ai/rag_engine.py *)

\* k of rag.search(user_text, k=20)
K == 20

\* the cut text_snippet = ...[:2500]
SnippetLen == 2500

\* a document of the index built by build_index_from_json: it carries a title
DocBuilt ==
    [page_content |-> <<"t","h","e","f","t">>,
     metadata |-> [title |-> "PPC Section 379", source |-> "Official PDF",
                   type |-> "Act"]]

\* a document appended by update_memory: PyPDFLoader gives it no title
DocAdded ==
    [page_content |-> <<"t","a","x">>,
     metadata |-> [source |-> "tax.pdf", page |-> "0"]]

Corpus == <<DocBuilt, DocAdded>>

\* self.db = None
NoneDb == [kind |-> "None", docs |-> <<>>]

\* self.db after FAISS.load_local
Faiss(docs) == [kind |-> "FAISS", docs |-> docs]

Min(a, b) == IF a < b THEN a ELSE b

\* what the index can answer for a query: the ranked positions of the k
\* nearest documents among n
Rankings(n, k) ==
    { h \in [1..Min(n, k) -> 1..n] :
        \A a, b \in 1..Min(n, k) : a # b => h[a] # h[b] }

\* what one similarity_search can do: fail in the embedding call, fail in
\* the index, or answer with a ranking; without an index it is not called
SearchOutcomes(d) ==
    IF d.kind = "None" THEN { [fail |-> "none", hits |-> <<>>] }
    ELSE { [fail |-> f, hits |-> <<>>] : f \in {"embed", "index"} } \cup
         { [fail |-> "none", hits |-> h] : h \in Rankings(Len(d.docs), K) }

\* similarity_search on an index whose vectors have another dimension than
\* the query's: the index raises, whatever the query
OutcomesAt(d, dim, queryDim) ==
    IF d.kind # "None" /\ dim # queryDim
    THEN { [fail |-> "index", hits |-> <<>>] }
    ELSE SearchOutcomes(d)

\* doc.metadata.get('title', 'Unknown')
TitleOf(metadata) ==
    IF "title" \in DOMAIN metadata THEN metadata.title ELSE "Unknown"

\* rag_engine.py:145-150
Items(d, hits) ==
    [n \in 1..Len(hits) |->
        [text |-> d.docs[hits[n]].page_content,
         title |-> TitleOf(d.docs[hits[n]].metadata)]]

Returned(v) == [raised |-> FALSE, value |-> v]

Raised == [raised |-> TRUE, value |-> <<>>]

\* search without its try/except: the failure reaches the caller
SearchNoCatch(d, oc) ==
    IF d.kind = "None" THEN Returned(<<>>)
    ELSE IF oc.fail # "none" THEN Raised
    ELSE Returned(Items(d, oc.hits))

\* search without its `if not self.db` guard: None has no similarity_search,
\* and the AttributeError is raised outside the try
SearchNoGuard(d, oc) ==
    IF d.kind = "None" THEN Raised
    ELSE IF oc.fail # "none" THEN Returned(<<>>)
    ELSE Returned(Items(d, oc.hits))

\* rag_engine.py:140-153, RAGEngine.search
Search(d, oc) ==
    IF d.kind = "None" THEN Returned(<<>>)
    ELSE IF oc.fail # "none" THEN Returned(<<>>)
    ELSE Returned(Items(d, oc.hits))

----------------------------------------------------------------------------
(* The consult handler, app.py:129-193 *)

Whitespace == {" "}

RECURSIVE LStrip(_)
LStrip(s) ==
    IF s # <<>> /\ s[1] \in Whitespace THEN LStrip(Tail(s)) ELSE s

RECURSIVE RStrip(_)
RStrip(s) ==
    IF s # <<>> /\ Last(s) \in Whitespace
    THEN RStrip(SubSeq(s, 1, Len(s) - 1)) ELSE s

\* str.strip()
Strip(s) == RStrip(LStrip(s))

\* the request bodies of the model: data['text'] and data['lang']
Texts == { <<"t","a","x"," ">> }

Langs == {"en", "ur"}

\* app.py:140-148, the context built from the retrieved items
ContextOf(docs) == [n \in 1..Len(docs) |-> Take(docs[n].text, SnippetLen)]

\* app.py:153-192
FullPrompt(lang, ctx, user_text) ==
    [instruction |-> IF lang = "ur" THEN "URDU" ELSE "ENGLISH",
     data |-> ctx, query |-> user_text]

NoPrompt == [instruction |-> "", data |-> <<>>, query |-> <<>>]

\* rag.search was not called (yet) in this request
NotSearched ==
    [called |-> FALSE, oc |-> [fail |-> "none", hits |-> <<>>],
     result |-> Returned(<<>>)]

\* rag.search was called, the index did oc, and the call gave r
Searched(oc, r) == [called |-> TRUE, oc |-> oc, result |-> r]

----------------------------------------------------------------------------
(* The index build, rag_engine.py:74-138, run as a script (156-160) *)

\* batches the largest corpus of the model has
MaxBatches == 53

\* rag_engine.py:98
batch_size == 50

\* rag_engine.py:111, `retries < 5`
MaxRetries == 5

\* rag_engine.py:132, `i % 2500`
CheckpointChunks == 2500

\* the runs of the script: the first, and the one started again after it
Runs == {1, 2}

\* len(final_docs) for the corpora of the model: no chunk, less than a batch,
\* one batch, batches with a short last one, and enough for a checkpoint
CorpusSizes ==
    {0, 1, batch_size, 2 * batch_size + 20, MaxBatches * batch_size - 30}

\* rag_engine.py:75-77: legal_data_final.json is missing
NoJson == [exists |-> FALSE, total_chunks |-> 0]

\* rag_engine.py:79-95: the file is there and splits into n chunks, numbered
\* 0..n-1 in the order of final_docs
Json(n) == [exists |-> TRUE, total_chunks |-> n]

\* rag_engine.py:30, the dimension of the vectors of all-MiniLM-L6-v2
EmbeddingDim == 384

\* the dimension of the vectors of an index made with another model
ForeignDim == 2 * EmbeddingDim

\* a file of the index folder that is not there
NoFile == [present |-> FALSE, batches |-> <<>>, dim |-> 0]

\* a file of the index folder holding the batches written to it, embedded
\* with the model of rag_engine.py:30
File(batches) == [present |-> TRUE, batches |-> batches, dim |-> EmbeddingDim]

\* a file of an index that was made with another embedding model
ForeignFile(batches) ==
    [present |-> TRUE, batches |-> batches, dim |-> ForeignDim]

\* the folder FAISS_INDEX_PATH does not exist
NoDisk == [exists |-> FALSE, faiss |-> NoFile, pkl |-> NoFile]

\* rag_engine.py:34, self.db = None
NoIndex == [kind |-> "None", vec |-> <<>>, doc |-> <<>>]

\* a FAISS store: the vectors and the documents, as the batches added
Index(vec, doc) == [kind |-> "FAISS", vec |-> vec, doc |-> doc]

\* what FAISS.load_local can do: it raises when a file is missing, and it
\* can raise on the files it finds
LoadOutcomes(d) ==
    IF d.faiss.present /\ d.pkl.present THEN BOOLEAN ELSE {FALSE}

\* rag_engine.py:37-51, load_index: an exception leaves self.db None
load_index(d, ok) ==
    IF d.exists
    THEN IF ok THEN Index(d.faiss.batches, d.pkl.batches) ELSE NoIndex
    ELSE NoIndex

\* rag_engine.py:102, final_docs[i:i + batch_size] as <<first, end>>
Batch(total, n) == <<n, Min(n + batch_size, total)>>

\* rag_engine.py:114-117: FAISS.from_documents on None, add_documents else
AddBatch(d, batch) == Index(Append(d.vec, batch), Append(d.doc, batch))

\* no run of the build has started
BuildIdle ==
    /\ bpc = [p \in Runs |-> "idle"]
    /\ bdb = [p \in Runs |-> NoIndex]
    /\ bloaded = [p \in Runs |-> 0]
    /\ bi = [p \in Runs |-> 0]
    /\ retries = [p \in Runs |-> 0]
    /\ bafter = [p \in Runs |-> "none"]
    /\ status = [p \in Runs |-> "none"]

----------------------------------------------------------------------------
(* Chunking: RecursiveCharacterTextSplitter as rag_engine.py:91-92 and     *)
(* update_memory.py:66, 77 call it.                                        *)
(*                                                                         *)
(* A text is its words, each given by its length, with single spaces       *)
(* between them; `blank` says that a space comes first. A chunk is the     *)
(* slice [from, to) of the text it was cut from.                           *)

\* words a text of the model has at most
MaxWords == 3

\* rag_engine.py:91 and update_memory.py:66, chunk_size=1000
chunk_size == 1000

\* rag_engine.py:91, chunk_overlap=200
chunk_overlap == 200

\* update_memory.py:66, chunk_overlap=150
update_overlap == 150

\* rag_engine.py:105-106, the limit on the bytes of a chunk
MetadataLimit == 38000

\* the bytes one character has at most in utf-8
MaxCharBytes == 4

\* process_data.py:34, `len(full_text) > 100`
MinPdfText == 100

\* the lengths of the words of the model: short ones, one that fills most of
\* a chunk, one that is longer than a chunk
WordLens == {40, 180, 700, 1900}

Text(blank, words) == [blank |-> blank, words |-> words]

\* the empty string, and a value that is missing
EmptyText == Text(FALSE, <<>>)

Words == UNION { [1..n -> WordLens] : n \in 0..MaxWords }

DocTexts == { Text(b, w) : b \in BOOLEAN, w \in Words }

RECURSIVE Sum(_)
Sum(lens) == IF lens = <<>> THEN 0 ELSE lens[1] + Sum(Tail(lens))

\* len(text)
TextLen(t) ==
    Sum(t.words) + (IF t.blank THEN 1 ELSE 0)
    + (IF Len(t.words) > 1 THEN Len(t.words) - 1 ELSE 0)

\* the pieces re.split gives for the separator " " when the separator is
\* kept at the front of each piece: `lead` is that space, `len` counts it
Pieces(t) ==
    IF t.words = <<>>
    THEN IF t.blank THEN << [start |-> 0, len |-> 1, lead |-> 1] >> ELSE <<>>
    ELSE [k \in 1..Len(t.words) |->
            LET lead == IF k > 1 \/ t.blank THEN 1 ELSE 0
                before == SubSeq(t.words, 1, k - 1)
            IN  [start |-> Sum(before) + Len(before)
                           + (IF t.blank THEN 1 ELSE 0) - lead,
                 len |-> t.words[k] + lead,
                 lead |-> lead]]

\* a splitter's configuration
Splitter(size, overlap) == [size |-> size, overlap |-> overlap]

\* _join_docs: the pieces lo..hi joined and stripped; nothing when empty
JoinDocs(pieces, lo, hi) ==
    LET from == pieces[lo].start + pieces[lo].lead
        to == pieces[hi].start + pieces[hi].len
    IN  IF to > from THEN << [from |-> from, to |-> to] >> ELSE <<>>

\* _merge_splits, the while loop that drops pieces from the front of
\* current_doc: the index of the first piece that stays
RECURSIVE PopFront(_, _, _, _, _)
PopFront(pieces, lo, total, len, cfg) ==
    IF total > cfg.overlap \/ (total + len > cfg.size /\ total > 0)
    THEN PopFront(pieces, lo + 1, total - pieces[lo].len, len, cfg)
    ELSE lo

\* the length of the pieces lo..hi
Total(pieces, lo, hi) ==
    Sum([k \in 1..(hi - lo + 1) |-> pieces[lo + k - 1].len])

\* _merge_splits over the pieces n..last, with current_doc the pieces
\* lo..n-1 of length total
RECURSIVE MergeFrom(_, _, _, _, _, _, _)
MergeFrom(pieces, n, last, lo, total, docs, cfg) ==
    IF n > last
    THEN IF lo <= n - 1 THEN docs \o JoinDocs(pieces, lo, n - 1) ELSE docs
    ELSE LET len == pieces[n].len
         IN  IF total + len > cfg.size /\ lo <= n - 1
             THEN LET lo2 == PopFront(pieces, lo, total, len, cfg)
                  IN  MergeFrom(pieces, n + 1, last, lo2,
                                Total(pieces, lo2, n - 1) + len,
                                docs \o JoinDocs(pieces, lo, n - 1), cfg)
             ELSE MergeFrom(pieces, n + 1, last, lo, total + len, docs, cfg)

\* _merge_splits on the pieces first..last
MergeSplits(pieces, first, last, cfg) ==
    MergeFrom(pieces, first, last, first, 0, <<>>, cfg)

\* a splitter that keeps a piece it cannot split at a space as one chunk
KeepLong(piece, cfg) ==
    << [from |-> piece.start + piece.lead, to |-> piece.start + piece.len] >>

\* _split_text on a piece of chunk_size or more: it has no space inside, so
\* it is split into characters and merged again, which gives windows of
\* size characters that start every size - overlap characters
SplitLong(piece, cfg) ==
    LET stride == cfg.size - cfg.overlap
        last == IF piece.len <= cfg.size THEN 0
                ELSE (piece.len - cfg.size + stride - 1) \div stride
    IN  [k \in 1..(last + 1) |->
            [from |-> piece.start + (k - 1) * stride
                      + (IF k = 1 THEN piece.lead ELSE 0),
             to |-> piece.start + Min((k - 1) * stride + cfg.size, piece.len)]]

\* _split_text: the pieces shorter than chunk_size are merged run by run,
\* a longer piece is split on its own
RECURSIVE SplitFrom(_, _, _, _, _)
SplitFrom(pieces, n, first, acc, cfg) ==
    IF n > Len(pieces)
    THEN acc \o MergeSplits(pieces, first, Len(pieces), cfg)
    ELSE IF pieces[n].len < cfg.size
         THEN SplitFrom(pieces, n + 1, first, acc, cfg)
         ELSE SplitFrom(pieces, n + 1, n + 1,
                        acc \o MergeSplits(pieces, first, n - 1, cfg)
                            \o SplitLong(pieces[n], cfg),
                        cfg)

\* RecursiveCharacterTextSplitter.split_text
split_text(t, cfg) == SplitFrom(Pieces(t), 1, 1, <<>>, cfg)

\* rag_engine.py:104-106: a chunk over the byte limit is cut to its first
\* MetadataLimit characters
Truncate(c) ==
    IF (c.to - c.from) * MaxCharBytes > MetadataLimit
    THEN [c EXCEPT !.to = c.from + Min(c.to - c.from, MetadataLimit)]
    ELSE c

\* no record (yet), and a record that is a dict with the keys text and content
NoEntry == [kind |-> "none", text |-> EmptyText, content |-> EmptyText]

Entry(text, content) == [kind |-> "dict", text |-> text, content |-> content]

\* process_data.py:34: the PDF gave too little text and has no record
Dropped == [kind |-> "dropped", text |-> EmptyText, content |-> EmptyText]

\* an item of the JSON list that is not a dict: entry.get raises
NotADict == [kind |-> "other", text |-> EmptyText, content |-> EmptyText]

\* str(entry) of a record whose text and content are empty
Repr == Text(FALSE, <<8, 3, 10, 3>>)

\* Python's truth value of a string
Truthy(t) == TextLen(t) > 0

\* rag_engine.py:53-72, process_single_entry: the page_content of the
\* Document it returns, or nothing
process_single_entry(e) ==
    IF e.kind # "dict" THEN <<>>
    ELSE LET text_content ==
                 IF Truthy(e.text) THEN e.text
                 ELSE IF Truthy(e.content) THEN e.content
                 ELSE Repr
         IN  IF Truthy(text_content) THEN <<text_content>> ELSE <<>>

\* rag_engine.py:91-92 and 104-106: the chunks of the documents, as the
\* batch loop hands them to the index
BuildChunks(documents) ==
    IF documents = <<>> THEN <<>>
    ELSE LET cs == split_text(documents[1], Splitter(chunk_size, chunk_overlap))
         IN  [k \in 1..Len(cs) |-> Truncate(cs[k])]

\* update_memory.py:66 and 77: the chunks of the one page of a PDF
UpdateChunks(pages) ==
    split_text(pages[1], Splitter(chunk_size, update_overlap))

\* no PDF, and a PDF of one page
NoPdf == [exists |-> FALSE, pages |-> <<>>]

Pdf(page) == [exists |-> TRUE, pages |-> <<page>>]

\* process_data.py:28-40: the record of a PDF, when it has more than
\* MinPdfText characters; clean_text leaves single spaces between the words
process_my_files(d) ==
    LET full_text == d.pages[1]
    IN  IF TextLen(full_text) > MinPdfText
        THEN Entry(Text(FALSE, full_text.words), EmptyText)
        ELSE Dropped

\* a splitter's result that is not there yet, and one that is
NotSplit == [done |-> FALSE, docs |-> <<>>]

SplitTo(docs) == [done |-> TRUE, docs |-> docs]

\* no document is on its way
ChunkQuiet ==
    /\ pdf = NoPdf
    /\ entry = NoEntry
    /\ final_docs = NotSplit
    /\ chunks = NotSplit

----------------------------------------------------------------------------
(* The incremental update, update_memory.py *)

\* files RAW_DIR holds at most
MaxFiles == 2

\* runs of update_memory.py in one behaviour
MaxUpdates == 2

DotPdf == <<".","p","d","f">>

\* str.replace(".pdf", ""): the occurrences are removed from left to right,
\* and what is left is not looked at again
RECURSIVE RemovePdf(_)
RemovePdf(s) ==
    IF Len(s) < Len(DotPdf) THEN s
    ELSE IF SubSeq(s, 1, Len(DotPdf)) = DotPdf
         THEN RemovePdf(SubSeq(s, Len(DotPdf) + 1, Len(s)))
         ELSE <<s[1]>> \o RemovePdf(Tail(s))

\* str.endswith
EndsWith(s, suffix) ==
    Len(s) >= Len(suffix) /\ SubSeq(s, Len(s) - Len(suffix) + 1, Len(s)) = suffix

\* update_memory.py:33, the filter of all_pdfs
IsPdf(f) == EndsWith(Lower(f), DotPdf)

\* update_memory.py:27 and 37: .replace(".pdf", "").strip().lower()
Normalize(s) == Lower(Strip(RemovePdf(s)))

\* update_memory.py:72, doc_title
DocTitle(f) == RemovePdf(f)

\* the file names of the model
TaxPdf == <<"t","a","x",".","p","d","f">>

SpacedTaxPdf == <<" ","T","a","x",".","p","d","f">>

ActUpperPdf == <<"A","c","t",".","P","D","F">>

ScanPdf == <<"s","c","a","n",".","p","d","f">>

NestedPdf == <<"a",".","p",".","p","d","f","d","f",".","p","d","f">>

NotesTxt == <<"n",".","t","x","t">>

FileNames == {TaxPdf, SpacedTaxPdf, ActUpperPdf, ScanPdf, NestedPdf, NotesTxt}

\* update_memory.py:76-77: how many chunks the pages of each file split to;
\* scan.pdf has no text
ChunkCount(f) == IF f = ScanPdf THEN 0 ELSE IF f = TaxPdf THEN 2 ELSE 1

\* update_memory.py:77, chunks: the n-th chunk of file f is <<f, n>>
ChunksOf(f) == [n \in 1..ChunkCount(f) |-> <<f, n>>]

\* update_memory.py:79-85, the listing items of the chunks of f
ItemsOf(f) == [n \in 1..ChunkCount(f) |-> [title |-> DocTitle(f), text |-> <<f, n>>]]

\* the title process_data.py gave to the record of Tax.pdf
TaxTitle == <<"T","a","x">>

\* a document of the index that the build has put there
BaseDoc == <<TaxTitle, 1>>

\* JSON_PATH does not exist, and the file with its items
NoListing == [exists |-> FALSE, items |-> <<>>]

Listing(items) == [exists |-> TRUE, items |-> items]

\* faiss_index.faiss and faiss_index.pkl are not under PROCESSED_DIR, and the
\* two files holding docs
NoStore == [exists |-> FALSE, docs |-> <<>>]

Store(docs) == [exists |-> TRUE, docs |-> docs]

\* the titles and the names of the model with what line 27 and 37 make of them
Normalized ==
    [s \in FileNames \cup { DocTitle(f) : f \in FileNames } \cup {TaxTitle}
        |-> Normalize(s)]

\* update_memory.py:24-28, processed_titles_clean
processed_titles_clean(l) ==
    { Normalized[l.items[n].title] : n \in 1..Len(l.items) }

\* update_memory.py:33-42, the new files of the directory
NewPdfs(dir, l) ==
    { f \in dir : IsPdf(f) /\ Normalized[f] \notin processed_titles_clean(l) }

\* the orders os.listdir can give the files in
Orders(S) ==
    { o \in [1..Cardinality(S) -> S] :
        \A a, b \in 1..Cardinality(S) : a # b => o[a] # o[b] }

\* what a run of update_memory.py has printed and done at its end
Report(kind, count, errors, saved) ==
    [report |-> kind, found |-> count, errors |-> errors, saved |-> saved]

\* update_memory is not running
UpdateIdle ==
    /\ upc = "idle"
    /\ new_pdfs = <<>>
    /\ upos = 0
    /\ new_json_entries = <<>>
    /\ vectorstore = <<>>
    /\ uerrors = {}

\* update_memory.py is not there
UpdateQuiet ==
    /\ rawDir = {}
    /\ listing = NoListing
    /\ processedIndex = NoStore
    /\ runs = <<>>
    /\ UpdateIdle

\* failed knocks of the wake-up loop that the model counts
MaxKnocks == 2

\* the web process is up, its start and its keep-alive thread left out
ServeQuiet ==
    /\ bootpc = "serving"
    /\ knocks = 0
    /\ dbDim = EmbeddingDim
    /\ kpc = "off"
    /\ heartbeat = "none"
    /\ is_awake = TRUE

\* records of the JSON file that the model extracts at most
MaxRecords == 3

\* rag_engine.py:86, max_workers
max_workers == 10

\* a future of executor.map: queued, running in a worker, or done with what
\* process_single_entry returned (nothing, or one document)
Queued == [state |-> "queued", result |-> <<>>]

Running == [state |-> "running", result |-> <<>>]

Done(r) == [state |-> "done", result |-> r]

\* rag_engine.py:88 not reached
NotExtracted == [done |-> FALSE, docs |-> <<>>]

Extracted(docs) == [done |-> TRUE, docs |-> docs]

\* no extraction is going on
PoolQuiet ==
    /\ records = <<>>
    /\ futures = <<>>
    /\ finished = <<>>
    /\ extracted = NotExtracted

\* no build has run and none can: there is no corpus
BuildQuiet ==
    /\ jsonFile = NoJson
    /\ disk = NoDisk
    /\ BuildIdle

\* the offline scripts are not there at all
OfflineQuiet ==
    /\ BuildQuiet
    /\ ChunkQuiet
    /\ UpdateQuiet
    /\ ServeQuiet
    /\ PoolQuiet

----------------------------------------------------------------------------
(* Start of the process, app.py:16-68 *)

\* the environment variables GEMINI_KEY_1 .. GEMINI_KEY_3
KeySlots == 3

KeyOf(n) == <<"key", n>>

\* what os.getenv can give for the slots: a key or nothing
Environments == [1..KeySlots -> BOOLEAN]

\* app.py:16-23: the slots in order, those that are unset filtered out
FilterKeys(env) ==
    LET RECURSIVE From(_)
        From(n) ==
            IF n > KeySlots THEN <<>>
            ELSE IF env[n] THEN <<KeyOf(n)>> \o From(n + 1)
            ELSE From(n + 1)
    IN  From(1)

\* the engine states a running process can be in: no engine (app.py:67-68),
\* an engine whose load_index left db None, an engine with a loaded index
EngineStates ==
    { <<"none", NoneDb>>, <<"engine", NoneDb>> } \cup
    { <<"engine", Faiss(SubSeq(Corpus, 1, n))>> : n \in 1..Len(Corpus) }

\* the generator's variables before a request has one
GenIdle ==
    /\ gpc = "none"
    /\ i = 0
    /\ pos = 0
    /\ exc = NoExc
    /\ tried = <<>>
    /\ outcomes = <<>>
    /\ out = <<>>
    /\ disconnected = FALSE

Init ==
    /\ \E env \in Environments : GEMINI_KEYS = FilterKeys(env)
    /\ \E e \in EngineStates : rag = e[1] /\ db = e[2]
    /\ phase = "idle"
    /\ found = NotSearched
    /\ context = <<>>
    /\ response = "none"
    /\ prompt = NoPrompt
    /\ GenIdle
    /\ OfflineQuiet

----------------------------------------------------------------------------
(* consult, app.py:129-193 *)

\* app.py:131-150: read the request, retrieve, build the context
Consult_Retrieve ==
    /\ phase = "idle"
    /\ \E text \in Texts, lang \in Langs :
        LET user_text == Strip(text)
        IN  /\ prompt' = FullPrompt(lang, <<>>, user_text)
            /\ IF rag = "none"
               THEN /\ found' = NotSearched
                    /\ context' = <<>>
                    /\ phase' = "retrieved"
                    /\ response' = response
               ELSE \E oc \in OutcomesAt(db, dbDim, EmbeddingDim) :
                        LET r == Search(db, oc)
                        IN  /\ found' = Searched(oc, r)
                            /\ IF r.raised
                               THEN /\ context' = <<>>
                                    /\ phase' = "finished"
                                    /\ response' = "memory_error"
                               ELSE /\ context' = ContextOf(r.value)
                                    /\ phase' = "retrieved"
                                    /\ response' = response
    /\ UNCHANGED <<GEMINI_KEYS, rag, db>>
    /\ UNCHANGED genVars
    /\ UNCHANGED offlineVars

\* app.py:152-193: build the prompt, hand the generator to the response
Consult_Respond ==
    /\ phase = "retrieved"
    /\ prompt' = [prompt EXCEPT !.data = context]
    /\ response' = "stream"
    /\ phase' = "generation"
    /\ gpc' = "created"
    /\ UNCHANGED <<GEMINI_KEYS, rag, db, found, context>>
    /\ UNCHANGED <<i, pos, exc, tried, outcomes, out, disconnected>>
    /\ UNCHANGED offlineVars

----------------------------------------------------------------------------
(* generate_gemini_response, app.py:84-124 *)

reqVars ==
    <<GEMINI_KEYS, rag, db, phase, found, context, response, prompt,
      offlineVars>>

\* `break` in the place of the `continue` of app.py:117: the loop is left
NextIndexBreak(n) == Len(GEMINI_KEYS) + 1

\* the loop passes over a credential
NextIndexSkip(n) == n + 2

\* app.py:117 and 86: `continue` takes the loop to the next credential
NextIndex(n) == n + 1

\* app.py:112-121, the handler of an exception e raised inside the try
Handle(e) ==
    /\ exc' = e
    /\ outcomes' = Append(outcomes, IF Verdict[e] THEN "switched" ELSE "interrupted")
    /\ IF Verdict[e]
       THEN /\ i' = NextIndex(i)
            /\ gpc' = "loop"
            /\ out' = out
       ELSE /\ i' = i
            /\ gpc' = "yield_interruption"
            /\ out' = Append(out, InterruptionFragment(e))

\* the consumer's first next(): the body starts at the loop of app.py:86
Gen_Start ==
    /\ gpc = "created"
    /\ gpc' = "loop"
    /\ i' = 1
    /\ UNCHANGED <<pos, exc, tried, outcomes, out, disconnected>>
    /\ UNCHANGED reqVars

\* app.py:86-91: the next credential, a new model handle, a new stream
Gen_Attempt ==
    /\ gpc = "loop"
    /\ i <= Len(GEMINI_KEYS)
    /\ tried' = Append(tried, GEMINI_KEYS[i])
    /\ pos' = 0
    /\ gpc' = "stream"
    /\ UNCHANGED <<i, exc, outcomes, out, disconnected>>
    /\ UNCHANGED reqVars

\* app.py:124: the loop is over, every credential was rate-limited
Gen_Exhausted ==
    /\ gpc = "loop"
    /\ i > Len(GEMINI_KEYS)
    /\ out' = Append(out, LimitFragment)
    /\ gpc' = "yield_limit"
    /\ UNCHANGED <<i, pos, exc, tried, outcomes, disconnected>>
    /\ UNCHANGED reqVars

\* app.py:91-107: one chunk of the stream; it is yielded when it has content
Gen_Chunk ==
    /\ gpc = "stream"
    /\ pos < MaxChunks
    /\ pos' = pos + 1
    /\ \E hasContent \in BOOLEAN :
        IF hasContent
        THEN /\ out' = Append(out, ContentFragment(pos + 1))
             /\ gpc' = "yield_content"
        ELSE /\ out' = out
             /\ gpc' = gpc
    /\ UNCHANGED <<i, exc, tried, outcomes, disconnected>>
    /\ UNCHANGED reqVars

\* app.py:110: the stream is over, the function returns
Gen_StreamEnd ==
    /\ gpc = "stream"
    /\ gpc' = "returned"
    /\ outcomes' = Append(outcomes, "completed")
    /\ UNCHANGED <<i, pos, exc, tried, out, disconnected>>
    /\ UNCHANGED reqVars

\* app.py:89-91, 112: create_llm or the stream raises, before or between chunks
Gen_Raise ==
    /\ gpc = "stream"
    /\ \E e \in ProviderErrors : Handle(e)
    /\ UNCHANGED <<pos, tried, disconnected>>
    /\ UNCHANGED reqVars

After(g, step) == [gpc |-> g, step |-> step]

\* the code after each yield with the `return` of app.py:121 left out: the
\* except block ends and the loop goes on with the next credential
AfterYieldNoReturn(g) ==
    CASE g = "yield_content" -> After("stream", 0)
      [] g = "yield_interruption" -> After("loop", 1)
      [] g = "yield_limit" -> After("returned", 0)

\* where the generator goes on when it is resumed at a yield: the stream's
\* loop after app.py:107, the return of app.py:121, the end after app.py:124
AfterYield(g) ==
    CASE g = "yield_content" -> After("stream", 0)
      [] g = "yield_interruption" -> After("returned", 0)
      [] g = "yield_limit" -> After("returned", 0)

\* the consumer's next() while the generator is suspended at a yield
Gen_Resume ==
    /\ gpc \in {"yield_content", "yield_interruption", "yield_limit"}
    /\ gpc' = AfterYield(gpc).gpc
    /\ i' = i + AfterYield(gpc).step
    /\ UNCHANGED <<pos, exc, tried, outcomes, out, disconnected>>
    /\ UNCHANGED reqVars

\* the consumer disconnects: close() throws GeneratorExit at the yield where
\* the generator is suspended; only the yield of app.py:107 is inside the try
Gen_Close ==
    /\ gpc \in {"created", "yield_content", "yield_interruption", "yield_limit"}
    /\ disconnected' = TRUE
    /\ IF gpc = "yield_content" /\ Catches("GeneratorExit")
       THEN Handle(GeneratorExit)
       ELSE /\ gpc' = "closed"
            /\ UNCHANGED <<i, exc, outcomes, out>>
    /\ UNCHANGED <<pos, tried>>
    /\ UNCHANGED reqVars

\* the request is over; the next one starts from fresh locals
EndRequest ==
    /\ \/ gpc \in {"returned", "closed"}
       \/ phase = "finished"
    /\ phase' = "idle"
    /\ found' = NotSearched
    /\ context' = <<>>
    /\ response' = "none"
    /\ prompt' = NoPrompt
    /\ gpc' = "none"
    /\ i' = 0
    /\ pos' = 0
    /\ exc' = NoExc
    /\ tried' = <<>>
    /\ outcomes' = <<>>
    /\ out' = <<>>
    /\ disconnected' = FALSE
    /\ UNCHANGED <<GEMINI_KEYS, rag, db>>
    /\ UNCHANGED offlineVars

Next ==
    \/ Consult_Retrieve
    \/ Consult_Respond
    \/ Gen_Start
    \/ Gen_Attempt
    \/ Gen_Exhausted
    \/ Gen_Chunk
    \/ Gen_StreamEnd
    \/ Gen_Raise
    \/ Gen_Resume
    \/ Gen_Close
    \/ EndRequest

Spec == Init /\ [][Next]_vars

----------------------------------------------------------------------------
(* Words of the claims *)

Range(s) == { s[n] : n \in 1..Len(s) }

\* s is a prefix of t
IsPrefix(s, t) == Len(s) <= Len(t) /\ SubSeq(t, 1, Len(s)) = s

\* one attempt's stream has completed: the terminal path of app.py:110
Completed == "completed" \in Range(outcomes)

\* a terminal path of the request has fired
TerminalFired == Completed \/ Fallbacks(out) # {}

\* the step stays inside one request
SameRequest == gpc # "none" /\ gpc' # "none"

\* the positions of the answer's fragments that reached the consumer
ContentAt(s) == { n \in 1..Len(s) : s[n].kind = "content" }

\* msg holds one of the three rate-limit markers, case-insensitively
HasRateLimitMarker(msg) ==
    LET lowered == Lower(msg)
    IN  \/ Contains(lowered, Chars429)
        \/ Contains(lowered, CharsRateLimit)
        \/ Contains(lowered, CharsResourceExhausted)

\* every attempt of the request that has ended was rate-limited
\* HasRateLimitMarker of the text of each exception, computed once
Marked == [e \in Exceptions \cup {NoExc} |-> HasRateLimitMarker(e.msg)]

AllRateLimited == \A n \in 1..Len(outcomes) : outcomes[n] = "switched"

\* the generator has ended after an error fallback, or waits at it
Interrupted == gpc \in {"yield_interruption", "returned", "closed"}

----------------------------------------------------------------------------
(* C1 *)

C1_State ==
    /\ Fallbacks(out) \subseteq {Len(out)}
    /\ Completed => Fallbacks(out) = {}
    /\ gpc = "returned" =>
         /\ TerminalFired
         /\ Completed <=> Fallbacks(out) = {}
         /\ Completed => Last(outcomes) = "completed"

C1_Step ==
    SameRequest =>
        /\ IsPrefix(out, out')
        /\ TerminalFired => /\ out' = out
                            /\ tried' = tried
                            /\ outcomes' = outcomes

\* C1: in every request exactly one terminal path fires: when the generator
\* has returned, either one attempt's stream completed and no fallback was
\* emitted, or exactly one fallback was emitted and it is the last fragment.
\* Once a terminal path has fired no fragment is emitted and no attempt is
\* made, and the fragments already emitted stay as they are.
C1_OneTerminalPath == [](C1_State) /\ [][C1_Step]_vars

\* C1: a request that returned with fragments of a rate-limited attempt
\* followed by an error fallback, its only fallback and its last fragment
C1_Witness ==
    /\ gpc = "returned"
    /\ Len(tried) >= 2
    /\ Len(out) >= 2
    /\ out[1].kind = "content"
    /\ Last(out).kind = "interruption"
    /\ Fallbacks(out) = {Len(out)}

----------------------------------------------------------------------------
(* C2 *)

\* C2: a request never makes more attempts than there are credentials; a
\* rate-limit error never takes the error branch; and when every attempt
\* was rate-limited the generator returns after all N credentials were
\* attempted with exactly one fallback, the Limit Reached text, as its last
\* fragment. With no credential the output is that one message alone.
C2_RetryTermination ==
    /\ Len(tried) <= Len(GEMINI_KEYS)
    /\ exc.cls = "rate_limit" => "interrupted" \notin Range(outcomes)
    /\ (gpc = "returned" /\ AllRateLimited) =>
         /\ Len(tried) = Len(GEMINI_KEYS)
         /\ Len(outcomes) = Len(GEMINI_KEYS)
         /\ out # <<>>
         /\ Last(out) = LimitFragment
         /\ Fallbacks(out) = {Len(out)}
    /\ (gpc = "returned" /\ GEMINI_KEYS = <<>>) =>
         /\ tried = <<>>
         /\ out = <<LimitFragment>>

\* C2: three credentials, each attempt ended by a rate-limit error, the
\* generator returned after the Limit Reached message
C2_Witness ==
    /\ gpc = "returned"
    /\ Len(GEMINI_KEYS) = KeySlots
    /\ Len(tried) = KeySlots
    /\ AllRateLimited
    /\ exc.cls = "rate_limit"
    /\ Last(out) = LimitFragment

----------------------------------------------------------------------------
(* C3 *)

\* C3: no fragment of the answer is delivered to the consumer twice, also
\* when a rate-limit error ends an attempt that has already yielded
\* fragments and the next credential starts the answer again.
C3_NoDuplicateFragment ==
    \A a, b \in ContentAt(out) : a # b => out[a].pos # out[b].pos

----------------------------------------------------------------------------
(* C4 *)

\* the attempts a request may make when retries are counted apart from the
\* credentials in hand: one for each of the credential slots of app.py:16-20
RetryBudget == KeySlots

----------------------------------------------------------------------------
(* C5 *)

\* C5 as stated: a timeout or temporary-unavailability error is transient:
\* its raw text is never emitted to the consumer.
C5_TimeoutNeverRaw ==
    exc.cls \in {"timeout", "unavailable"} =>
        \A n \in 1..Len(out) : out[n].kind # "interruption"

\* C5, amended: only a rate-limit error is transient. The raw text of a
\* rate-limit error is never emitted: the request goes on with the next
\* credential or ends with the fixed capacity message. A timeout or
\* temporary-unavailability error is not retried: the request ends with the
\* error fallback that carries its raw text.
C5_OnlyRateLimitTransient ==
    /\ exc.cls = "rate_limit" =>
         /\ \A n \in 1..Len(out) : out[n].kind # "interruption"
         /\ Last(outcomes) \in {"switched", "completed"}
         /\ Len(tried) < Len(GEMINI_KEYS) =>
                gpc \in {"loop", "stream", "yield_content", "returned", "closed"}
         /\ gpc = "yield_limit" => Last(out) = LimitFragment
    /\ exc.cls \in {"timeout", "unavailable"} =>
         /\ Interrupted
         /\ Last(outcomes) = "interrupted"
         /\ Last(out) = InterruptionFragment(exc)
         /\ LimitFragment \notin Range(out)

\* C5: a timeout on the first of several credentials has ended the request
\* with its raw text
C5_Witness ==
    /\ exc.cls = "timeout"
    /\ gpc = "returned"
    /\ Len(tried) = 1
    /\ Len(GEMINI_KEYS) >= 2
    /\ Last(out).text = <<InterruptionHeader>> \o MsgTimeout

----------------------------------------------------------------------------
(* C6 *)

\* C6 as stated: a payload-too-large error yields a fallback of its own,
\* distinct from the generic error message and from the capacity message,
\* and no further attempt follows.
C6_SimplifyMessage ==
    exc.cls = "payload_too_large" =>
        /\ Interrupted
        /\ Last(out).kind \notin {"interruption", "limit"}

\* C6, amended: a payload-too-large error whose text holds no rate-limit
\* marker yields the generic error fallback carrying the error's text (the
\* code has no message of its own for it) and is followed by zero
\* additional attempts.
C6_PayloadGenericFallback ==
    (exc.cls = "payload_too_large" /\ ~Marked[exc]) =>
        /\ Interrupted
        /\ Last(outcomes) = "interrupted"
        /\ Last(out) = InterruptionFragment(exc)
        /\ Fallbacks(out) = {Len(out)}
        /\ Len(tried) = Len(outcomes)

\* C6: a payload-too-large error on the first of several credentials; the
\* generator has returned without a second attempt
C6_Witness ==
    /\ exc = Exc("payload_too_large", MsgTooLarge)
    /\ gpc = "returned"
    /\ Len(tried) = 1
    /\ Len(GEMINI_KEYS) >= 2
    /\ Last(out).kind = "interruption"

----------------------------------------------------------------------------
(* C7 *)

\* C7: an error whose text holds none of the markers '429', 'rate_limit',
\* 'resource_exhausted' (case-insensitively) ends the request at once: one
\* fallback carrying the error's text is the last fragment, no further
\* credential is tried, and the capacity message is not emitted.
C7_OtherErrorEndsRequest ==
    /\ [](exc # NoExc =>
            \/ /\ Interrupted
               /\ out # <<>>
               /\ Last(out).kind = "interruption"
               /\ Last(out).text = <<InterruptionHeader>> \o exc.msg
               /\ Fallbacks(out) = {Len(out)}
               /\ LimitFragment \notin Range(out)
            \/ Marked[exc])
    /\ [][(SameRequest /\ exc # NoExc) =>
            \/ tried' = tried /\ out' = out
            \/ Marked[exc]]_vars

\* C7: an error without a marker on the first credential while two more
\* are unused; the generator has returned
C7_Witness ==
    /\ exc = Exc("other", MsgOther)
    /\ gpc = "returned"
    /\ Len(tried) = 1
    /\ Len(GEMINI_KEYS) = KeySlots
    /\ Last(out).text = <<InterruptionHeader>> \o MsgOther

----------------------------------------------------------------------------
(* C8 *)

\* C8: once the consumer has closed the generator, the generator is closed
\* for good: the closing step and every later step of the request pull no
\* chunk from the upstream stream, attempt no credential and emit no
\* fragment, a fallback message included.
C8_StopsOnDisconnect ==
    /\ [](disconnected => gpc = "closed")
    /\ [][disconnected' =>
            /\ out' = out
            /\ pos' = pos
            /\ tried' = tried
            /\ outcomes' = outcomes]_vars

\* C8: the consumer left in the middle of the first attempt's stream, with
\* chunks still to come and credentials unused
C8_Witness ==
    /\ disconnected
    /\ gpc = "closed"
    /\ out # <<>>
    /\ Last(out).kind = "content"
    /\ pos < MaxChunks
    /\ Len(tried) < Len(GEMINI_KEYS)

----------------------------------------------------------------------------
(* C9 *)

\* C9: RAGEngine.search never raises. It returns the empty list when db is
\* None and when the query embedding or the index search fails; otherwise
\* it returns the nearest documents in the index's order, each as an item
\* with the two fields text and title and no score.
C9_SearchNeverRaises ==
    found.called =>
        LET r == found.result
            oc == found.oc
        IN  /\ ~r.raised
            /\ db.kind = "None" => r.value = <<>>
            /\ oc.fail # "none" => r.value = <<>>
            /\ (db.kind = "FAISS" /\ oc.fail = "none") =>
                 /\ Len(r.value) = Min(K, Len(db.docs))
                 /\ \A n \in 1..Len(r.value) :
                      /\ DOMAIN r.value[n] = {"text", "title"}
                      /\ r.value[n].text = db.docs[oc.hits[n]].page_content
                      /\ LET md == db.docs[oc.hits[n]].metadata
                         IN  r.value[n].title =
                                 IF "title" \in DOMAIN md
                                 THEN md.title ELSE "Unknown"

\* C9: the query embedding failed on a loaded index and search gave []
C9_Witness ==
    /\ found.called
    /\ db.kind = "FAISS"
    /\ found.oc.fail = "embed"
    /\ ~found.result.raised
    /\ found.result.value = <<>>

----------------------------------------------------------------------------
(* C10 *)

\* retrieval of this request had nothing to give: no engine, no index, or
\* a failed search
Degraded ==
    \/ rag = "none"
    \/ db.kind = "None"
    \/ (found.called /\ found.oc.fail # "none")

\* C10: consult never answers with the Memory Error response; when the
\* engine is missing, the index is not loaded or the search fails, the
\* context is empty and the request goes on to a streamed response. The
\* generator exists only after retrieval has finished, so the two never
\* run side by side.
C10_RetrievalDegrades ==
    /\ response # "memory_error"
    /\ phase \in {"idle", "retrieved", "generation"}
    /\ gpc # "none" <=> phase = "generation"
    /\ phase = "generation" => response = "stream" /\ prompt.data = context
    /\ phase = "idle" => ~found.called /\ response = "none"
    /\ (phase \in {"retrieved", "generation"} /\ Degraded) => context = <<>>
    /\ (phase \in {"retrieved", "generation"} /\ rag = "engine") => found.called

\* C10: the index search failed, the prompt went out with empty data, and
\* the streamed response has completed with fragments of the answer
C10_Witness ==
    /\ phase = "generation"
    /\ rag = "engine"
    /\ db.kind = "FAISS"
    /\ found.oc.fail = "index"
    /\ prompt.data = <<>>
    /\ gpc = "returned"
    /\ Completed
    /\ out # <<>>

----------------------------------------------------------------------------
(* Runs of the index build, rag_engine.py:156-160: RAGEngine() loads the   *)
(* persisted index, build_index_from_json adds the corpus batch by batch   *)

\* no request is there: the web process is not part of the offline scripts
AppQuiet ==
    /\ GEMINI_KEYS = <<>>
    /\ rag = "none"
    /\ db = NoneDb
    /\ phase = "idle"
    /\ found = NotSearched
    /\ context = <<>>
    /\ response = "none"
    /\ prompt = NoPrompt
    /\ GenIdle

\* what a run of the build leaves alone
notBuild == <<appVars, chunkVars, updateVars, serveVars, poolVars>>

\* rag_engine.py:101, range(0, total_chunks, batch_size): where the loop starts
FirstBatch == 0

\* a retry loop that allows one attempt more: `retries <= 5`
RetryInclusive(r) == r <= MaxRetries

\* rag_engine.py:111, the condition of the retry loop after a failed attempt
Retry(r) == r < MaxRetries

\* rag_engine.py:132, the condition of the checkpoint after the batch at n
ShouldCheckpoint(n, d) ==
    n > 0 /\ n % CheckpointChunks = 0 /\ d.kind # "None"

\* rag_engine.py:126-127 and 137: whether the run saves before it ends
SavesOnEnd(d) == d.kind # "None"

\* self.db.save_local starts; `then` is where the run goes on after it
BeginSave(p, then) ==
    /\ bpc' = [bpc EXCEPT ![p] = "save_faiss"]
    /\ bafter' = [bafter EXCEPT ![p] = then]

\* the process ends: sys.exit(1) of rag_engine.py:128, or the end of the script
Exit(p, code) ==
    /\ bpc' = [bpc EXCEPT ![p] = "exited"]
    /\ status' = [status EXCEPT ![p] = code]

\* rag_engine.py:157-160 up to the loop of 101: the engine is constructed,
\* load_index runs, the corpus is read and split
Start(p) ==
    /\ bpc[p] = "idle"
    /\ \E ok \in LoadOutcomes(disk) :
        LET d == load_index(disk, ok)
        IN  /\ bdb' = [bdb EXCEPT ![p] = d]
            /\ bloaded' = [bloaded EXCEPT ![p] = Len(d.doc)]
            /\ bi' = [bi EXCEPT ![p] = FirstBatch]
    /\ IF jsonFile.exists
       THEN /\ bpc' = [bpc EXCEPT ![p] = "loop"]
            /\ status' = status
       ELSE Exit(p, 0)
    /\ UNCHANGED <<jsonFile, disk, retries, bafter>>
    /\ UNCHANGED notBuild

\* the script is run when no earlier run is still going
Build_Run(p) ==
    /\ \A q \in Runs : q < p => bpc[q] = "exited"
    /\ Start(p)

\* rag_engine.py:108-133: one attempt at the batch at i, and what follows it:
\* the next batch, the checkpoint, another attempt, or the abort
Build_Attempt(p) ==
    /\ bpc[p] = "loop"
    /\ bi[p] < jsonFile.total_chunks
    /\ \E ok \in BOOLEAN :
        IF ok
        THEN LET d == AddBatch(bdb[p], Batch(jsonFile.total_chunks, bi[p]))
             IN  /\ bdb' = [bdb EXCEPT ![p] = d]
                 /\ retries' = [retries EXCEPT ![p] = 0]
                 /\ IF ShouldCheckpoint(bi[p], d)
                    THEN /\ BeginSave(p, "next")
                         /\ bi' = bi
                    ELSE /\ bi' = [bi EXCEPT ![p] = bi[p] + batch_size]
                         /\ UNCHANGED <<bpc, bafter>>
                 /\ status' = status
        ELSE /\ retries' = [retries EXCEPT ![p] = retries[p] + 1]
             /\ IF Retry(retries[p] + 1)
                THEN UNCHANGED <<bpc, bafter, status>>
                ELSE IF SavesOnEnd(bdb[p])
                     THEN /\ BeginSave(p, "exit")
                          /\ status' = status
                     ELSE /\ Exit(p, 1)
                          /\ bafter' = bafter
             /\ UNCHANGED <<bdb, bi>>
    /\ UNCHANGED <<jsonFile, disk, bloaded>>
    /\ UNCHANGED notBuild

\* rag_engine.py:135-138: the loop is over, the final save
Build_Finish(p) ==
    /\ bpc[p] = "loop"
    /\ bi[p] >= jsonFile.total_chunks
    /\ IF SavesOnEnd(bdb[p])
       THEN /\ BeginSave(p, "done")
            /\ status' = status
       ELSE /\ Exit(p, 0)
            /\ bafter' = bafter
    /\ UNCHANGED <<jsonFile, disk, bdb, bloaded, bi, retries>>
    /\ UNCHANGED notBuild

\* save_local, first half: the folder is made and index.faiss is written
Save_Faiss(p) ==
    /\ bpc[p] = "save_faiss"
    /\ disk' = [exists |-> TRUE, faiss |-> File(bdb[p].vec), pkl |-> disk.pkl]
    /\ bpc' = [bpc EXCEPT ![p] = "save_pkl"]
    /\ UNCHANGED <<jsonFile, bdb, bloaded, bi, retries, bafter, status>>
    /\ UNCHANGED notBuild

\* save_local, second half: index.pkl is written; then the run goes on with
\* the next batch (133), exits with 1 (128), or ends (138)
Save_Pkl(p) ==
    /\ bpc[p] = "save_pkl"
    /\ disk' = [disk EXCEPT !.pkl = File(bdb[p].doc)]
    /\ bafter' = [bafter EXCEPT ![p] = "none"]
    /\ CASE bafter[p] = "next" ->
              /\ bpc' = [bpc EXCEPT ![p] = "loop"]
              /\ bi' = [bi EXCEPT ![p] = bi[p] + batch_size]
              /\ status' = status
         [] bafter[p] = "exit" ->
              /\ Exit(p, 1)
              /\ bi' = bi
         [] bafter[p] = "done" ->
              /\ Exit(p, 0)
              /\ bi' = bi
    /\ UNCHANGED <<jsonFile, bdb, bloaded, retries>>
    /\ UNCHANGED notBuild

InitBuild ==
    /\ AppQuiet
    /\ ServeQuiet
    /\ PoolQuiet
    /\ ChunkQuiet
    /\ UpdateQuiet
    /\ jsonFile \in {NoJson} \cup { Json(n) : n \in CorpusSizes }
    /\ disk = NoDisk
    /\ BuildIdle

NextBuild ==
    \E p \in Runs :
        \/ Build_Run(p)
        \/ Build_Attempt(p)
        \/ Build_Finish(p)
        \/ Save_Faiss(p)
        \/ Save_Pkl(p)

SpecBuild == InitBuild /\ [][NextBuild]_vars

----------------------------------------------------------------------------
(* The script started at any time: nothing in rag_engine.py looks for      *)
(* another run before it loads, adds or saves                              *)

\* the corpora of at most three batches
SmallCorpora == { n \in CorpusSizes : n <= 3 * batch_size }

\* the script is started, whatever the other runs are doing
Build_Spawn(p) ==
    /\ p \in Runs
    /\ Start(p)

InitWriters ==
    /\ AppQuiet
    /\ ServeQuiet
    /\ PoolQuiet
    /\ ChunkQuiet
    /\ UpdateQuiet
    /\ jsonFile \in { Json(n) : n \in SmallCorpora }
    /\ disk = NoDisk
    /\ BuildIdle

NextWriters ==
    \E p \in Runs :
        \/ Build_Spawn(p)
        \/ Build_Attempt(p)
        \/ Build_Finish(p)
        \/ Save_Faiss(p)
        \/ Save_Pkl(p)

SpecWriters == InitWriters /\ [][NextWriters]_vars

----------------------------------------------------------------------------
(* One document on its two ways into the index: as a record of             *)
(* legal_data_final.json through the build, as a PDF through the update    *)

\* what the chunking leaves alone
notChunk == <<appVars, buildVars, updateVars, serveVars, poolVars>>

\* the contents `content` can have in the records of the model
Contents == { EmptyText, Text(TRUE, <<>>), Text(FALSE, <<700, 700>>) }

\* the records of the model: with a text, with a content only, with neither,
\* and an item that is no dict
Entries ==
    { Entry(t, EmptyText) : t \in DocTexts } \cup
    { Entry(EmptyText, c) : c \in Contents } \cup
    { NotADict }

\* process_data.py:22-40: the PDF becomes a record of the corpus, or is left out
Process_Pdf ==
    /\ pdf.exists
    /\ entry = NoEntry
    /\ entry' = process_my_files(pdf)
    /\ UNCHANGED <<pdf, final_docs, chunks>>
    /\ UNCHANGED notChunk

\* rag_engine.py:83-106: the record becomes a Document, is split, and its
\* chunks are cut to the byte limit on their way into a batch
Build_Split ==
    /\ entry # NoEntry
    /\ ~final_docs.done
    /\ final_docs' = SplitTo(BuildChunks(process_single_entry(entry)))
    /\ UNCHANGED <<pdf, entry, chunks>>
    /\ UNCHANGED notChunk

\* update_memory.py:75-77: the pages of the PDF are split
Update_Split ==
    /\ pdf.exists
    /\ ~chunks.done
    /\ chunks' = SplitTo(UpdateChunks(pdf.pages))
    /\ UNCHANGED <<pdf, entry, final_docs>>
    /\ UNCHANGED notChunk

InitChunk ==
    /\ AppQuiet
    /\ ServeQuiet
    /\ PoolQuiet
    /\ BuildQuiet
    /\ UpdateQuiet
    /\ \/ pdf \in { Pdf(t) : t \in DocTexts } /\ entry = NoEntry
       \/ pdf = NoPdf /\ entry \in Entries
    /\ final_docs = NotSplit
    /\ chunks = NotSplit

NextChunk ==
    \/ Process_Pdf
    \/ Build_Split
    \/ Update_Split

SpecChunk == InitChunk /\ [][NextChunk]_vars

----------------------------------------------------------------------------
(* Runs of update_memory.py *)

\* what update_memory leaves alone
notUpdate == <<appVars, buildVars, chunkVars, serveVars, poolVars>>

\* what processing one file can do: PyPDFLoader or the splitter raises
\* (lines 75-77), add_documents raises (line 88), or nothing raises
ProcessOutcomes == {"ok", "load_error", "add_error"}

\* update_memory.py:10-12 and 96: the folder and the index name the update
\* saves under
UpdateArtifact ==
    [folder |-> "backend/data/processed", index_name |-> "faiss_index"]

\* rag_engine.py:18 and 42-46: the folder the engine loads from, and the
\* index name load_local takes when none is given
EngineArtifact ==
    [folder |-> "backend/data/faiss_index", index_name |-> "index"]

\* the files save_local writes for a store of docs, as an index folder
AsFolder(docs) ==
    [exists |-> TRUE, faiss |-> File(<<<<0, Len(docs)>>>>),
     pkl |-> File(<<<<0, Len(docs)>>>>)]

\* what a save of docs at the artifact `at` makes of the folder d that is
\* read at the artifact `from`
SavedAt(at, from, docs, d) == IF at = from THEN AsFolder(docs) ELSE d

\* the function returns: its locals are gone
Return(r) ==
    /\ runs' = Append(runs, r)
    /\ upc' = "idle"
    /\ new_pdfs' = <<>>
    /\ upos' = 0
    /\ new_json_entries' = <<>>
    /\ vectorstore' = <<>>
    /\ uerrors' = {}

\* update_memory.py:16-67: the listing is read, the new files are found,
\* the store is loaded
Update_Start ==
    /\ upc = "idle"
    /\ Len(runs) < MaxUpdates
    /\ LET new == NewPdfs(rawDir, listing)
       IN  IF new = {}
           THEN Return(Report("up_to_date", 0, {}, FALSE))
           ELSE \E ok \in (IF processedIndex.exists THEN BOOLEAN ELSE {FALSE}) :
                   IF ok
                   THEN /\ \E order \in Orders(new) : new_pdfs' = order
                        /\ vectorstore' = processedIndex.docs
                        /\ upc' = "loop"
                        /\ UNCHANGED <<upos, new_json_entries, uerrors, runs>>
                   ELSE Return(Report("load_error", Cardinality(new), {}, FALSE))
    /\ UNCHANGED <<rawDir, listing, processedIndex>>
    /\ UNCHANGED notUpdate

\* update_memory.py:69-90: one file of new_pdfs; the items of its chunks go
\* to new_json_entries before add_documents is called
Update_Process ==
    /\ upc = "loop"
    /\ upos < Len(new_pdfs)
    /\ LET f == new_pdfs[upos + 1]
       IN  \E oc \in ProcessOutcomes :
            /\ new_json_entries' =
                   IF oc = "load_error" THEN new_json_entries
                   ELSE new_json_entries \o ItemsOf(f)
            /\ vectorstore' =
                   IF oc = "ok" THEN vectorstore \o ChunksOf(f) ELSE vectorstore
            /\ uerrors' = IF oc = "ok" THEN uerrors ELSE uerrors \cup {f}
    /\ upos' = upos + 1
    /\ UNCHANGED <<rawDir, listing, processedIndex, upc, new_pdfs, runs>>
    /\ UNCHANGED notUpdate

\* update_memory.py:92-103: the store is saved, the listing is written with
\* the new items, DONE is printed with the number of files found
Update_Save ==
    /\ upc = "loop"
    /\ upos = Len(new_pdfs)
    /\ processedIndex' = Store(vectorstore)
    /\ listing' = Listing(listing.items \o new_json_entries)
    /\ disk' = SavedAt(UpdateArtifact, EngineArtifact, vectorstore, disk)
    /\ Return(Report("done", Len(new_pdfs), uerrors, TRUE))
    /\ UNCHANGED rawDir
    /\ UNCHANGED <<jsonFile, bpc, bdb, bloaded, bi, retries, bafter, status>>
    /\ UNCHANGED <<appVars, chunkVars, serveVars, poolVars>>

\* the directories of the model
RawDirs == { d \in SUBSET FileNames : Cardinality(d) <= MaxFiles }

InitUpdate ==
    /\ AppQuiet
    /\ ServeQuiet
    /\ PoolQuiet
    /\ BuildQuiet
    /\ ChunkQuiet
    /\ rawDir \in RawDirs
    /\ listing \in {NoListing, Listing(<<[title |-> TaxTitle, text |-> BaseDoc]>>)}
    /\ processedIndex \in {NoStore, Store(<<BaseDoc>>)}
    /\ runs = <<>>
    /\ UpdateIdle

NextUpdate ==
    \/ Update_Start
    \/ Update_Process
    \/ Update_Save

SpecUpdate == InitUpdate /\ [][NextUpdate]_vars

----------------------------------------------------------------------------
(* Words of the claims about the build *)

\* the starts of the batches of a corpus of n chunks
BatchStarts(n) == { b \in 0..(n - 1) : b % batch_size = 0 }

\* how many times the batch starting at b is in a file or a store
Copies(batches, b) ==
    Cardinality({ n \in 1..Len(batches) : batches[n][1] = b })

\* the chunks a sequence of batches holds, counted with their repetitions
RECURSIVE Chunks(_)
Chunks(batches) ==
    IF batches = <<>> THEN 0
    ELSE (batches[1][2] - batches[1][1]) + Chunks(Tail(batches))

\* the run has ended after the batch loop ran to its end
Finished(p) == bpc[p] = "exited" /\ status[p] = 0

\* the run was aborted by the sys.exit(1) of rag_engine.py:128
Aborted(p) == bpc[p] = "exited" /\ status[p] = 1

\* the batches the run has added itself, after what load_index gave it
AddedBy(p) == SubSeq(bdb[p].doc, bloaded[p] + 1, Len(bdb[p].doc))

----------------------------------------------------------------------------
(* C11 *)

\* C11: when the build is run again after a run that was aborted by a
\* provider failure, it resumes from the persisted checkpoint: no batch that
\* load_index found in the persisted index is embedded and added again, and
\* when the second run has completed every batch of the corpus is in the
\* persisted index exactly once.
C11_ResumesFromCheckpoint ==
    (Aborted(1) /\ bpc[2] # "idle") =>
        /\ \A n \in 1..Len(AddedBy(2)) :
               \A m \in 1..bloaded[2] : bdb[2].doc[m] # AddedBy(2)[n]
        /\ Finished(2) =>
               \A b \in BatchStarts(jsonFile.total_chunks) :
                   Copies(disk.pkl.batches, b) = 1

----------------------------------------------------------------------------
(* C12 *)

\* the batches the run has added are the first batches of the corpus, each
\* once, in the order of final_docs
InOrder(p) ==
    \A n \in 1..Len(AddedBy(p)) :
        AddedBy(p)[n] = Batch(jsonFile.total_chunks, (n - 1) * batch_size)

\* the batch the run is at has failed MaxRetries times
GaveUp(p) == retries[p] = MaxRetries

\* both files of the index folder hold what the run's store holds
Persisted(p) ==
    /\ disk.exists
    /\ disk.faiss = File(bdb[p].vec)
    /\ disk.pkl = File(bdb[p].doc)

C12_State ==
    \A p \in Runs :
        /\ retries[p] <= MaxRetries
        /\ InOrder(p)
        /\ bpc[p] = "loop" =>
               /\ retries[p] < MaxRetries
               /\ bi[p] = Len(AddedBy(p)) * batch_size
        /\ GaveUp(p) =>
               /\ bpc[p] \in {"save_faiss", "save_pkl", "exited"}
               /\ bpc[p] = "exited" => status[p] = 1

C12_Step ==
    \A p \in Runs :
        \* a successful attempt adds the batch at i, once, and ends its retries
        /\ bdb'[p] # bdb[p] /\ bpc[p] = "loop" =>
               /\ bdb'[p].doc =
                      Append(bdb[p].doc, Batch(jsonFile.total_chunks, bi[p]))
               /\ retries'[p] = 0
               /\ bpc'[p] = "loop" => bi'[p] = bi[p] + batch_size
        \* a failed attempt adds nothing and stays at the batch
        /\ retries'[p] = retries[p] + 1 =>
               bdb'[p] = bdb[p] /\ bi'[p] = bi[p]
        \* the abort: what was added is on disk when the process exits
        /\ GaveUp(p) /\ bpc[p] # "exited" /\ bpc'[p] = "exited" =>
               /\ status'[p] = 1
               /\ bdb[p].kind # "None" => Persisted(p)'
        \* after the fifth failure no batch is attempted or added
        /\ GaveUp(p) =>
               bdb'[p] = bdb[p] /\ bi'[p] = bi[p] /\ retries'[p] = retries[p]

\* C12: the batches are processed in order and each is attempted at most 5
\* times; a successful attempt adds the batch once and ends its retries.
\* When a batch has failed 5 times the build aborts: no later batch is
\* attempted, every batch added before is saved to the index path before
\* the process exits, and the exit status is 1.
C12_AbortSavesProgress == [](C12_State) /\ [][C12_Step]_vars

\* a run that added two batches and then gave up on the third has exited
C12_Witness ==
    /\ Aborted(1)
    /\ GaveUp(1)
    /\ Len(AddedBy(1)) = 2
    /\ Persisted(1)

----------------------------------------------------------------------------
(* C20 *)

\* the run is inside build_index_from_json
Building(p) == bpc[p] \in {"loop", "save_faiss", "save_pkl"}

\* the chunks of the run's store that index.pkl does not hold yet
Unsaved(p) ==
    LET saved == IF disk.pkl.present /\ IsPrefix(disk.pkl.batches, bdb[p].doc)
                 THEN Len(disk.pkl.batches) ELSE 0
    IN  Chunks(SubSeq(bdb[p].doc, saved + 1, Len(bdb[p].doc)))

\* C20: during a build the index is checkpointed every 50 batches: whenever
\* the number of chunks the run has added reaches a positive multiple of
\* 2,500 a save happens, so that at no point more than 2,500 added chunks
\* are unsaved.
C20_CheckpointEvery2500 ==
    \A p \in Runs :
        Building(p) =>
            /\ Unsaved(p) <= CheckpointChunks
            /\ (AddedBy(p) # <<>> /\ Chunks(AddedBy(p)) % CheckpointChunks = 0) =>
                   \/ bpc[p] \in {"save_faiss", "save_pkl"}
                   \/ Unsaved(p) = 0

----------------------------------------------------------------------------
(* C16 *)

\* the run is inside save_local
Saving(p) == bpc[p] \in {"save_faiss", "save_pkl"}

\* C16: index mutation is single-writer: at most one mutating operation (a
\* build with its adds and saves) is in flight against the persisted index
\* at any time, and two saves never interleave, also when two builds are
\* started concurrently.
C16_SingleWriter ==
    \A p, q \in Runs :
        p # q => /\ ~(Saving(p) /\ Saving(q))
                 /\ ~(Building(p) /\ Building(q))

----------------------------------------------------------------------------
(* C19 *)

\* the number of characters of a chunk
ChunkLen(c) == c.to - c.from

\* the chunks a splitter's result holds
Docs(result) == { result.docs[n] : n \in 1..Len(result.docs) }

\* C19: every chunk that the build or the update hands to the index is
\* non-empty and has at most chunk_size (1000) characters, whatever the
\* record or the page it was cut from.
C19_ChunkSizeBounded ==
    \A c \in Docs(final_docs) \cup Docs(chunks) :
        ChunkLen(c) >= 1 /\ ChunkLen(c) <= chunk_size

\* a record with a word longer than a chunk was split by the build into
\* several chunks, one of them of exactly chunk_size characters
C19_Witness ==
    /\ final_docs.done
    /\ \E n \in 1..Len(entry.text.words) : entry.text.words[n] > chunk_size
    /\ Len(final_docs.docs) >= 3
    /\ \E c \in Docs(final_docs) : ChunkLen(c) = chunk_size

----------------------------------------------------------------------------
(* C14 *)

\* the slices of the document's words that a result holds: the space a page
\* starts with is not counted, clean_text has removed it from the record
Slices(result, blank) ==
    { << c.from - (IF blank THEN 1 ELSE 0), c.to - (IF blank THEN 1 ELSE 0) >> :
        c \in Docs(result) }

\* C14: a document B added by the incremental update is indexed as the same
\* chunks that a build from scratch over the corpus with B gives: both
\* paths chunk B with the same configuration. (B is a PDF that has its
\* record in the corpus.)
C14_IncrementalEquivalence ==
    (pdf.exists /\ entry.kind = "dict" /\ final_docs.done /\ chunks.done) =>
        Slices(chunks, pdf.pages[1].blank) = Slices(final_docs, FALSE)

----------------------------------------------------------------------------
(* C13 *)

\* the last run of update_memory found new files and processed every one of
\* them without an error
ProcessedAll ==
    /\ runs # <<>>
    /\ Last(runs).report = "done"
    /\ Last(runs).errors = {}

C13_State ==
    upc = "loop" =>
        \A n \in 1..Len(new_pdfs) :
            /\ IsPdf(new_pdfs[n])
            /\ Normalized[new_pdfs[n]] \notin processed_titles_clean(listing)

C13_Step ==
    ProcessedAll =>
        /\ listing' = listing
        /\ processedIndex' = processedIndex
        /\ (upc = "loop" /\ upc' = "loop") => vectorstore' = vectorstore

\* C13: the incremental update processes only the raw documents whose
\* normalized title (extension removed, trimmed, lowercased) is not in the
\* listing, and it is idempotent: a second run over the unchanged raw
\* directory, after a run that processed every new document, adds nothing
\* to the index and leaves the index and the listing as they were.
C13_IdempotentUpdate == [](C13_State) /\ [][C13_Step]_vars

----------------------------------------------------------------------------
(* C18 *)

\* C18: when the processing of a new document fails during an incremental
\* update, the run does not end reporting success and does not save an
\* index and a listing that hide the failure.
C18_FailureNotHidden ==
    \A n \in 1..Len(runs) :
        runs[n].errors # {} => runs[n].report # "done" /\ ~runs[n].saved

----------------------------------------------------------------------------
(* The start of the web process and its keep-alive thread, app.py:51-80 *)

\* the documents a web process finds in a loaded store: as many of the
\* corpus as the store has chunks
Loaded(d) ==
    IF d.kind = "None" THEN NoneDb
    ELSE Faiss(SubSeq(Corpus, 1, Min(Chunks(d.doc), Len(Corpus))))

\* an index folder whose index.faiss is there and whose index.pkl is not:
\* load_local raises
Unreadable ==
    [exists |-> TRUE, faiss |-> File(<<<<0, 1>>>>), pkl |-> NoFile]

\* an index folder made by a build over n chunks with vectors of the model
Built(n) ==
    [exists |-> TRUE, faiss |-> File(<<<<0, n>>>>), pkl |-> File(<<<<0, n>>>>)]

\* an index folder made with another embedding model
Foreign(n) ==
    [exists |-> TRUE, faiss |-> ForeignFile(<<<<0, n>>>>),
     pkl |-> ForeignFile(<<<<0, n>>>>)]

\* what can be at FAISS_INDEX_PATH when the web process starts
Folders ==
    {NoDisk, Unreadable} \cup
    { Built(n) : n \in 1..Len(Corpus) } \cup
    { Foreign(n) : n \in 1..Len(Corpus) }

\* the state of the requests: what consult and the generator work on
requestVars ==
    <<GEMINI_KEYS, phase, found, context, response, prompt,
      gpc, i, pos, exc, tried, outcomes, out, disconnected>>

\* what the start of the process and the keep-alive thread never touch
notServe == <<requestVars, buildVars, chunkVars, updateVars, poolVars>>

\* app.py:77-78: except Exception: pass, and the loop goes on
AfterPingUncaught(ok) == IF ok THEN "sleep" ELSE "dead"

AfterPing(ok) == "sleep"

\* app.py:80: threading.Thread(target=keep_brain_awake, daemon=True).start()
StartThread == kpc' = "sleep"

\* app.py:51-54 with rag_engine.py:21-35: rag = None, then RAGEngine(), whose
\* constructor makes the embeddings client and calls load_index; an
\* exception of the constructor is caught by app.py:67 and rag stays None
Boot_Engine ==
    /\ bootpc = "start"
    /\ \E built \in BOOLEAN :
        IF built
        THEN \E ok \in LoadOutcomes(disk) :
                LET d == load_index(disk, ok)
                IN  /\ rag' = "engine"
                    /\ db' = Loaded(d)
                    /\ dbDim' = IF d.kind = "None" THEN dbDim
                                ELSE disk.faiss.dim
                    /\ bootpc' = "waking"
                    /\ kpc' = kpc
        ELSE /\ rag' = "none"
             /\ db' = NoneDb
             /\ dbDim' = dbDim
             /\ bootpc' = "serving"
             /\ StartThread
    /\ UNCHANGED <<knocks, heartbeat, is_awake>>
    /\ UNCHANGED notServe

\* the loop gives up after MaxKnocks failures and the process serves
AfterKnockGiveUp(ok, n) ==
    IF ok \/ n >= MaxKnocks THEN "serving" ELSE "waking"

\* app.py:57-65: `while not is_awake` is left when a call has returned,
\* whatever the number n of calls that failed before
AfterKnock(ok, n) == IF ok THEN "serving" ELSE "waking"

\* app.py:56-65: embed_query("wake up") until it returns; a failure is
\* caught, the loop sleeps five seconds and knocks again. The failures are
\* counted up to MaxKnocks, the loop itself does not count them
Boot_Knock ==
    /\ bootpc = "waking"
    /\ \E ok \in BOOLEAN :
        /\ is_awake' = ok
        /\ knocks' = IF ok \/ knocks >= MaxKnocks THEN knocks ELSE knocks + 1
        /\ bootpc' = AfterKnock(ok, knocks)
        /\ IF bootpc' = "serving" THEN StartThread ELSE kpc' = kpc
    /\ UNCHANGED <<dbDim, heartbeat>>
    /\ UNCHANGED <<rag, db>>
    /\ UNCHANGED notServe

\* app.py:71-74: time.sleep(300) has returned; if rag: the ping is sent
KeepAlive_Wake ==
    /\ kpc = "sleep"
    /\ rag = "engine"
    /\ kpc' = "ping"
    /\ UNCHANGED <<bootpc, knocks, dbDim, heartbeat, is_awake>>
    /\ UNCHANGED <<rag, db>>
    /\ UNCHANGED notServe

\* app.py:75-78: rag.embeddings.embed_query("heartbeat ping") returns or
\* raises
KeepAlive_Ping ==
    /\ kpc = "ping"
    /\ \E ok \in BOOLEAN :
        /\ heartbeat' = IF ok THEN "sent" ELSE "failed"
        /\ kpc' = AfterPing(ok)
    /\ UNCHANGED <<bootpc, knocks, dbDim, is_awake>>
    /\ UNCHANGED <<rag, db>>
    /\ UNCHANGED notServe

\* app.py:229-230: app.run is reached after the module code above it
Serve ==
    /\ bootpc = "serving"
    /\ Next

\* environments with no key or the first one only: the keys are not what
\* the start is about
FewKeys == { env \in Environments : \A n \in 1..KeySlots : env[n] => n = 1 }

InitServe ==
    /\ \E env \in FewKeys : GEMINI_KEYS = FilterKeys(env)
    /\ rag = "none"
    /\ db = NoneDb
    /\ phase = "idle"
    /\ found = NotSearched
    /\ context = <<>>
    /\ response = "none"
    /\ prompt = NoPrompt
    /\ GenIdle
    /\ jsonFile = NoJson
    /\ disk \in Folders
    /\ BuildIdle
    /\ ChunkQuiet
    /\ UpdateQuiet
    /\ bootpc = "start"
    /\ knocks = 0
    /\ dbDim = EmbeddingDim
    /\ kpc = "off"
    /\ heartbeat = "none"
    /\ is_awake = FALSE
    /\ PoolQuiet

NextServe ==
    \/ Boot_Engine
    \/ Boot_Knock
    \/ KeepAlive_Wake
    \/ KeepAlive_Ping
    \/ Serve

\* the thread is scheduled, and sleep and the ping both return
SpecServe ==
    /\ InitServe
    /\ [][NextServe]_vars
    /\ WF_vars(KeepAlive_Wake)
    /\ WF_vars(KeepAlive_Ping)

----------------------------------------------------------------------------
(* C15: loading a persisted index *)

\* C15: when the web process serves with an engine and there is an index
\* folder, the index was loaded and its vectors have the dimension of the
\* configured embedding model: a load failure or a mismatch does not let the
\* engine go on.
C15_LoadFailsLoudly ==
    (bootpc = "serving" /\ rag = "engine" /\ disk.exists)
        => (db.kind = "FAISS" /\ dbDim = EmbeddingDim)

----------------------------------------------------------------------------
(* C17: the keep-alive thread *)

\* the thread has taken a step
KeepAliveStep == kpc # "off" /\ (kpc' # kpc \/ heartbeat' # heartbeat)

\* what the thread must leave alone: the engine, the index in memory and on
\* disk, every request's state
Shared == <<rag, db, dbDim, disk, requestVars>>

C17_Step ==
    KeepAliveStep => (kpc' \in {"sleep", "ping"} /\ UNCHANGED Shared)

\* C17: once started the keep-alive thread is never ended, a step of it
\* changes neither the engine, the index nor a request's state, and after a
\* failed ping another ping is issued.
C17_KeepAliveSurvives ==
    /\ [][C17_Step]_vars
    /\ (heartbeat = "failed" /\ kpc = "sleep") ~> (kpc = "ping")

\* a ping is issued after a failed one while a request is being answered
C17_Witness ==
    /\ heartbeat = "failed"
    /\ kpc = "ping"
    /\ phase = "retrieved"

----------------------------------------------------------------------------
(* C21: the listing and the index after an update *)

\* the listing has an item under the title update_memory gives to file f
Listed(f) ==
    \E n \in 1..Len(listing.items) : listing.items[n].title = DocTitle(f)

\* the saved index holds a chunk of file f
Indexed(f) ==
    \E n \in 1..Len(processedIndex.docs) : processedIndex.docs[n][1] = f

\* C21: when update_memory has finished, a document has items in the
\* listing if and only if its chunks are in the saved index; a document
\* whose append failed is not in the listing.
C21_ListingAgreesWithIndex ==
    upc = "idle" => \A f \in rawDir : Listed(f) <=> Indexed(f)

----------------------------------------------------------------------------
(* C25: the wake-up loop of the start *)

\* with an engine, the process serves and the keep-alive thread runs only
\* when a wake-up call has returned
C25_State ==
    rag = "engine" /\ (bootpc = "serving" \/ kpc # "off") => is_awake

\* a step taken inside the loop leaves it exactly when its call returned,
\* and after the loop no wake-up call is made
C25_Step ==
    /\ bootpc = "waking" /\ is_awake' => bootpc' = "serving"
    /\ bootpc = "waking" /\ ~is_awake' => bootpc' = "waking" /\ kpc' = "off"
    /\ is_awake => is_awake' /\ knocks' = knocks

\* C25: when the engine was constructed, the process serves (keep-alive
\* thread started) only after a wake-up call has succeeded; the loop is left
\* at the first success and at no failure, however many there were.
C25_ServesOnlyAwake == [](C25_State) /\ [][C25_Step]_vars

\* the process serves after the wake-up call failed MaxKnocks times and then
\* succeeded
C25_Witness ==
    /\ rag = "engine"
    /\ bootpc = "serving"
    /\ knocks = MaxKnocks
    /\ kpc # "off"

----------------------------------------------------------------------------
(* The extraction of the records by the thread pool, rag_engine.py:82-88 *)

notPool == <<appVars, buildVars, chunkVars, updateVars, serveVars>>

\* the items of the JSON file in the model: three records that differ in
\* their text, a record with neither text nor content, an item that is no
\* dict
JsonItems ==
    { Entry(Text(FALSE, <<w>>), EmptyText) : w \in {40, 180, 700} } \cup
    { Entry(EmptyText, EmptyText), NotADict }

RECURSIVE Lists(_)
Lists(n) ==
    IF n = 0 THEN { <<>> }
    ELSE Lists(n - 1) \cup
         { Append(l, e) : l \in { m \in Lists(n - 1) : Len(m) = n - 1 },
                          e \in JsonItems }

\* the results taken in the order the calls returned
ResultsAsCompleted(fut, order) == [n \in 1..Len(fut) |-> fut[order[n]].result]

\* rag_engine.py:87, list(executor.map(...)): the result of each future in
\* the order of the items
Results(fut, order) == [n \in 1..Len(fut) |-> fut[n].result]

\* rag_engine.py:88, [doc for doc in results if doc]
RECURSIVE Kept(_)
Kept(rs) ==
    IF rs = <<>> THEN <<>> ELSE rs[1] \o Kept(Tail(rs))

\* the futures that are in the state st
InState(st) == { n \in 1..Len(futures) : futures[n].state = st }

\* rag_engine.py:87, executor.map submits a call for every item at once
Pool_Map ==
    /\ futures = <<>>
    /\ ~extracted.done
    /\ futures' = [n \in 1..Len(records) |-> Queued]
    /\ UNCHANGED <<records, finished, extracted>>
    /\ UNCHANGED notPool

\* a free worker takes the call that has waited longest
Pool_Take ==
    /\ InState("queued") # {}
    /\ Cardinality(InState("running")) < max_workers
    /\ LET n == CHOOSE m \in InState("queued") :
                    \A k \in InState("queued") : m <= k
       IN  futures' = [futures EXCEPT ![n] = Running]
    /\ UNCHANGED <<records, finished, extracted>>
    /\ UNCHANGED notPool

\* rag_engine.py:53-72 in a worker: process_single_entry returns and its
\* result is set in the future of its item
Pool_Return ==
    /\ \E n \in InState("running") :
        /\ futures' = [futures EXCEPT ![n] = Done(process_single_entry(records[n]))]
        /\ finished' = Append(finished, n)
    /\ UNCHANGED <<records, extracted>>
    /\ UNCHANGED notPool

\* rag_engine.py:87-88: list() has waited for every future, the results
\* that are documents are kept
Pool_Collect ==
    /\ futures # <<>> \/ records = <<>>
    /\ ~extracted.done
    /\ InState("done") = 1..Len(records)
    /\ Len(futures) = Len(records)
    /\ extracted' = Extracted(Kept(Results(futures, finished)))
    /\ UNCHANGED <<records, futures, finished>>
    /\ UNCHANGED notPool

InitPool ==
    /\ AppQuiet
    /\ ServeQuiet
    /\ BuildQuiet
    /\ ChunkQuiet
    /\ UpdateQuiet
    /\ records \in Lists(MaxRecords)
    /\ futures = <<>>
    /\ finished = <<>>
    /\ extracted = NotExtracted

NextPool ==
    \/ Pool_Map
    \/ Pool_Take
    \/ Pool_Return
    \/ Pool_Collect

SpecPool == InitPool /\ [][NextPool]_vars

----------------------------------------------------------------------------
(* C22: the extraction is race-free and keeps the order *)

\* the documents of the records, one after the other
RECURSIVE InOrderOf(_)
InOrderOf(rs) ==
    IF rs = <<>> THEN <<>>
    ELSE process_single_entry(rs[1]) \o InOrderOf(Tail(rs))

\* C22: whatever the interleaving of the workers, the collected list holds
\* one document for every record that yields one, in the order of the
\* records; no call is made twice and none is lost.
C22_ExtractionKeepsOrder ==
    /\ \A n \in 1..Len(finished) :
        Cardinality({ m \in 1..Len(finished) : finished[m] = finished[n] }) = 1
    /\ extracted.done =>
        /\ extracted.docs = InOrderOf(records)
        /\ Len(finished) = Len(records)

\* the calls returned in another order than the records' and the documents
\* were collected
C22_Witness ==
    /\ extracted.done
    /\ Len(extracted.docs) >= 2
    /\ \E a, b \in 1..Len(finished) : a < b /\ finished[a] > finished[b]

----------------------------------------------------------------------------
(* C23: the order of the credentials *)

\* the credentials tried so far in the request are the first ones of the
\* list, in its order, and the loop stands at the last of them
C23_State ==
    /\ IsPrefix(tried, GEMINI_KEYS)
    /\ gpc = "stream" => i = Len(tried)

\* a credential is tried only as the one after those already tried; the
\* first of a request is the first of the list
C23_Step ==
    (tried' # tried /\ tried' # <<>>) =>
        tried' = Append(tried, GEMINI_KEYS[Len(tried) + 1])

\* C23: in one request the credentials are tried in the order of the list,
\* from the first one on every request, each for one attempt at most.
C23_CredentialOrder == [](C23_State) /\ [][C23_Step]_vars

\* the last of three credentials is in use after the two before it were
\* rate-limited
C23_Witness ==
    /\ gpc = "stream"
    /\ tried = GEMINI_KEYS
    /\ Len(GEMINI_KEYS) = KeySlots
    /\ Len(outcomes) = KeySlots - 1

----------------------------------------------------------------------------
(* An update followed by a start of the web process *)

\* app.py:51-54 in a process started after update_memory.py has ended
Reload ==
    /\ upc = "idle"
    /\ runs # <<>>
    /\ Boot_Engine

InitReload ==
    /\ GEMINI_KEYS = <<>>
    /\ rag = "none"
    /\ db = NoneDb
    /\ phase = "idle"
    /\ found = NotSearched
    /\ context = <<>>
    /\ response = "none"
    /\ prompt = NoPrompt
    /\ GenIdle
    /\ ChunkQuiet
    /\ PoolQuiet
    /\ jsonFile = NoJson
    /\ disk = Built(1)
    /\ BuildIdle
    /\ rawDir \in RawDirs
    /\ listing = Listing(<<[title |-> TaxTitle, text |-> BaseDoc]>>)
    /\ processedIndex = Store(<<BaseDoc>>)
    /\ runs = <<>>
    /\ UpdateIdle
    /\ bootpc = "start"
    /\ knocks = 0
    /\ dbDim = EmbeddingDim
    /\ kpc = "off"
    /\ heartbeat = "none"
    /\ is_awake = FALSE

NextReload ==
    \/ Update_Start
    \/ Update_Process
    \/ Update_Save
    \/ Reload
    \/ Boot_Knock
    \/ Serve

SpecReload == InitReload /\ [][NextReload]_vars

----------------------------------------------------------------------------
(* C24: the index the update saves is the index the engine loads *)

\* the engine is constructed and its load_index has loaded an index
LoadsIndex == bootpc = "start" /\ rag' = "engine" /\ db'.kind = "FAISS"

\* C24: when the engine loads its index after update_memory has saved
\* chunks of a new file, the loaded index holds the appended document, so
\* that search can return it.
C24_UpdateReachesSearch ==
    [][(LoadsIndex /\ \E f \in rawDir : Indexed(f))
          => DocAdded \in Range(db'.docs)]_vars

====
